---------------------------- MODULE Spec2Model ----------------------------
(***************************************************************************)
(* Model of the Roboost primary motor cortex firmware: the cmd_vel         *)
(* callback, the velocity controller, the motor channels and the control   *)
(* loop of src/src/core.cpp.                                               *)
(*                                                                         *)
(* Numbers.  The firmware computes in double.  The model computes exactly  *)
(* in the field Q[pi] restricted to the operations the firmware uses on    *)
(* non-constant values (sum, difference, product with a rational constant, *)
(* comparison): a value a + b*pi is the pair <<a, b>> of two rationals,    *)
(* a rational n/d is the pair <<n, d>> in lowest terms with d > 0.         *)
(* Commands, gains, geometry and sampling intervals are rationals; encoder *)
(* readings (ticks * 2*pi / resolution / dt) are rational multiples of pi, *)
(* so that headings reach multiples of pi/2, where sin and cos are exact.  *)
(* Floating-point rounding is not modelled.                                *)
(***************************************************************************)
EXTENDS Integers, Sequences, FiniteSets, TLC

\* ------------------------------------------------------------------------
\* Exact rationals <<n, d>>
\* ------------------------------------------------------------------------
Abs(i) == IF i < 0 THEN -i ELSE i

RECURSIVE GCD(_, _)
GCD(a, b) == IF b = 0 THEN a ELSE GCD(b, a % b)

Q(n, d) ==
    LET s == IF d < 0 THEN -1 ELSE 1
        g == GCD(Abs(n), Abs(d))
    IN  <<(s * n) \div g, (s * d) \div g>>

R0 == <<0, 1>>
R1 == <<1, 1>>
RAdd(a, b) == Q(a[1] * b[2] + b[1] * a[2], a[2] * b[2])
RNeg(a)    == <<-a[1], a[2]>>
RSub(a, b) == RAdd(a, RNeg(b))
RMul(a, b) == Q(a[1] * b[1], a[2] * b[2])
RDiv(a, b) == Q(a[1] * b[2], a[2] * b[1])
RAbs(a)    == <<Abs(a[1]), a[2]>>
RLt(a, b)  == a[1] * b[2] < b[1] * a[2]
RLe(a, b)  == a[1] * b[2] <= b[1] * a[2]
RSign(a)   == IF a[1] > 0 THEN 1 ELSE IF a[1] < 0 THEN -1 ELSE 0

\* ------------------------------------------------------------------------
\* Exact values a + b*pi, <<a, b>>
\* ------------------------------------------------------------------------
\* 333/106 < pi < 355/113
PiLo == Q(333, 106)
PiHi == Q(355, 113)

NZero       == <<R0, R0>>
FromRat(q)  == <<q, R0>>
PiTimes(q)  == <<R0, q>>
NAdd(x, y)  == <<RAdd(x[1], y[1]), RAdd(x[2], y[2])>>
NNeg(x)     == <<RNeg(x[1]), RNeg(x[2])>>
NSub(x, y)  == NAdd(x, NNeg(y))
NScale(q, x) == <<RMul(q, x[1]), RMul(q, x[2])>>

\* The sign of a + b*pi.  When a and b have opposite signs, |a| is compared
\* with |b|*pi through the bracket of pi; a value the bracket cannot decide
\* has no sign here (TLC stops on it).
NSign(x) ==
    LET sa == RSign(x[1])
        sb == RSign(x[2])
    IN  CASE sb = 0 -> sa
          [] sa = 0 -> sb
          [] sa = sb -> sa
          [] sa # sb /\ RLe(RMul(PiHi, RAbs(x[2])), RAbs(x[1])) -> sa
          [] sa # sb /\ RLe(RAbs(x[1]), RMul(PiLo, RAbs(x[2]))) -> sb

NLt(x, y) == NSign(NSub(x, y)) < 0
NLe(x, y) == NSign(NSub(x, y)) <= 0
NGt(x, y) == NLt(y, x)
NAbs(x)   == IF NSign(x) < 0 THEN NNeg(x) ELSE x

\* Vectors are tuples of values.
VAdd(u, v)   == [i \in DOMAIN u |-> NAdd(u[i], v[i])]
VScale(q, u) == [i \in DOMAIN u |-> NScale(q, u[i])]
Zero3 == <<NZero, NZero, NZero>>
Zero4 == <<NZero, NZero, NZero, NZero>>
Vec3(a, b, c) == <<FromRat(a), FromRat(b), FromRat(c)>>

RECURSIVE SumSeq(_)
SumSeq(s) == IF s = <<>> THEN NZero ELSE NAdd(s[1], SumSeq(Tail(s)))

Last(s) == s[Len(s)]

\* ------------------------------------------------------------------------
\* Configuration (core.cpp globals)
\* ------------------------------------------------------------------------
Motors == 1 .. 4

base_kp                    == Q(105, 1000)
base_ki                    == Q(125, 1000)
modifier_ki_linear         == Q(2, 1)
modifier_ki_rotational     == Q(11, 10)
base_kd                    == Q(5, 1000)
max_expected_sampling_time == Q(2, 10)
max_integral               == Q(52, 10)
MIN_OUTPUT                 == Q(35, 100)

\* Thresholds of the ki selection in cmd_vel_subscription_callback.
LinearThreshold     == Q(5, 10)
RotationalThreshold == Q(1, 1)

\* Window sizes of the three command filters.
cmd_vel_filter_x_window   == 2
cmd_vel_filter_y_window   == 2
cmd_vel_filter_rot_window == 4

\* ------------------------------------------------------------------------
\* Signal filters (spec 4.2)
\* ------------------------------------------------------------------------
\* MovingAverageFilter: the window after update(sample), and its output.
MovingAverageWindow(hist, W, sample) ==
    LET h == Append(hist, sample)
    IN  IF Len(h) > W THEN Tail(h) ELSE h

MovingAverageOutput(hist) == NScale(Q(1, Len(hist)), SumSeq(hist))

\* NoFilter: update(sample) returns the sample.
NoFilterUpdate(sample) == sample

\* ------------------------------------------------------------------------
\* Bounds of the model
\* ------------------------------------------------------------------------
\* Commands delivered to the callback in SpecCmd.
MaxCmds == 5

\* Commands the callback is run on.  The mixed command exceeds the linear and
\* the rotational threshold at once.
LinearCmd     == Vec3(Q(8, 10), R0, R0)
RotationalCmd == Vec3(R0, R0, Q(3, 2))
MixedCmd      == Vec3(Q(2, 10), Q(-7, 10), Q(-3, 1))
SlowCmd       == Vec3(Q(4, 10), R0, Q(1, 1))
StopCmd       == Zero3
CmdSet == {StopCmd, LinearCmd, RotationalCmd, MixedCmd, SlowCmd}

\* Motor array updates in SpecChannel.
MaxUpdates == 2

\* Wheel targets, raw encoder velocities (rad/s) and regulator sampling
\* intervals (s) the motor array is driven with in SpecChannel.
TargetSet ==
    { Zero4,
      <<FromRat(Q(1, 2)), FromRat(Q(-1, 2)), NZero, FromRat(Q(500, 1))>>,
      <<FromRat(Q(-500, 1)), NZero, FromRat(Q(1, 2)), FromRat(Q(10, 1))>> }
RawSet ==
    { Zero4,
      <<FromRat(Q(1, 2)), FromRat(Q(-1, 1)), PiTimes(Q(1, 4)), FromRat(Q(-40, 1))>> }
PidDtSet == {R0, Q(1, 10), Q(1, 4)}
KiSet == {base_ki, RMul(base_ki, modifier_ki_linear),
          RMul(base_ki, modifier_ki_rotational)}

\* Geometries and body velocities of SpecKin.
GeometrySet ==
    { <<Q(1, 20), Q(1, 5), Q(1, 5)>>,
      <<Q(1, 10), Q(3, 10), Q(1, 5)>>,
      <<Q(1, 2), Q(1, 1), Q(1, 2)>> }
BodyVelocitySet ==
    { <<FromRat(vx), FromRat(vy), w>> :
        vx \in {Q(-1, 1), R0, Q(1, 2)},
        vy \in {Q(-1, 2), R0, Q(1, 1)},
        w \in {NZero, FromRat(Q(3, 2)), PiTimes(Q(-1, 2))} }

\* Pose integrations in SpecOdom.
MaxOdomSteps == 4

\* Velocity estimates (m/s, m/s, rad/s) and loop periods (ms) of SpecOdom.
\* Every yaw rate times every period is a multiple of pi/2.
EstimateSet ==
    { <<FromRat(R1), NZero, NZero>>,
      <<NZero, FromRat(Q(1, 2)), PiTimes(Q(2, 1))>>,
      <<FromRat(Q(-1, 1)), PiTimes(Q(1, 2)), PiTimes(Q(-2, 1))>>,
      <<FromRat(Q(1, 4)), FromRat(Q(-1, 1)), PiTimes(Q(6, 1))>> }
PeriodSet == {250, 500}

\* cmd_vel messages received and completed loop() calls in Spec.
MaxPublished == 2
MaxCycles == 2

\* Messages, raw encoder velocities (rad/s) and regulator sampling intervals
\* of Spec.  The second reading is one no body velocity produces (only the
\* front right wheel turns); every yaw rate estimate times every period of
\* PeriodSet is a multiple of pi/2.
LoopCmdSet == {StopCmd, LinearCmd, MixedCmd}
LoopRawSet ==
    { <<FromRat(Q(10, 1)), FromRat(Q(10, 1)), FromRat(Q(10, 1)), FromRat(Q(10, 1))>>,
      <<NZero, PiTimes(Q(32, 1)), NZero, NZero>> }
LoopPidDtSet == {Q(1, 10)}

\* SpecSetup: attempts of one INIT call that are counted (the count stops
\* there, the retrying does not).
MaxAttempts == 2

\* ------------------------------------------------------------------------
\* State
\* ------------------------------------------------------------------------
VARIABLES
    cmd_vel_filter_x,    \* window of cmd_vel_filter_x
    cmd_vel_filter_y,    \* window of cmd_vel_filter_y
    cmd_vel_filter_rot,  \* window of cmd_vel_filter_rot
    smoothed_cmd_vel,    \* the global smoothed_cmd_vel
    ki,                  \* ki of controller_M0..M3
    latest_command_,     \* VelocityController::latest_command_
    delivered,           \* history: the messages the callback has run on
    target,              \* target velocity of motor_controller_M0..M3
    integral,            \* integral accumulator of controller_M0..M3
    previous_error,      \* previous error of controller_M0..M3
    regulated,           \* filtered regulator output of the last channel update
    output,              \* value last sent to driver_M0..M3
    measured,            \* filtered measured velocity of the last channel update
    chan_op,             \* history: the last motor array operation
    chan_updates,        \* history: number of motor array updates
    kin_geom,            \* SpecKin: the kinematics model under test
    kin_v,               \* SpecKin: the body velocity put in
    kin_wheels,          \* SpecKin: calculate_wheel_velocity(kin_v)
    kin_back,            \* SpecKin: calculate_robot_velocity(kin_wheels)
    kin_pc,              \* SpecKin: "start", "inverse" or "done"
    last_time,           \* the global last_time (ms)
    robot_velocity,      \* loop(): the local robot_velocity
    dt,                  \* loop(): the local dt (s)
    pose,                \* the global pose (x, y, theta)
    odom_steps,          \* history: number of pose integrations
    pc,                  \* loop(): the statement to run next
    inbox,               \* cmd_vel messages received and not yet taken
    published,           \* history: number of cmd_vel messages received
    cycles,              \* history: number of completed loop() calls
    robot_velocity_,     \* VelocityController::robot_velocity_
    update_saw,          \* history: the ki and command of the last update()
    odom_msg,            \* the global odom_msg
    joint_state_msg,     \* the global joint_state_msg (position, velocity)
    wanted_joint_state_msg, \* the global wanted_joint_state_msg (velocity)
    odom_out,            \* last message published on "odom"
    joint_out,           \* last message published on "joint_states"
    wanted_out,          \* last message published on "wanted_joint_states"
    joint_sum,           \* history: sum of wheel velocity * dt per wheel
    null_stores,         \* history: loop() stored through a null data pointer
    init_index,          \* setup(): the INIT call in progress (1-based)
    init_attempts,       \* history: attempts made of each INIT call
    led                  \* LED_BUILTIN: pin mode and level

cmdVars == <<cmd_vel_filter_x, cmd_vel_filter_y, cmd_vel_filter_rot,
             smoothed_cmd_vel, latest_command_, delivered>>
chanVars == <<target, integral, previous_error, regulated, output, measured,
              chan_op, chan_updates>>

kinVars == <<kin_geom, kin_v, kin_wheels, kin_back, kin_pc>>
odomVars == <<last_time, robot_velocity, dt, pose, odom_steps>>

loopVars == <<pc, inbox, published, cycles, robot_velocity_, update_saw,
              odom_msg, joint_state_msg, wanted_joint_state_msg, odom_out,
              joint_out, wanted_out, joint_sum, null_stores>>

setupVars == <<init_index, init_attempts, led>>

vars == <<cmdVars, ki, chanVars, kinVars, odomVars, loopVars, setupVars>>

\* ------------------------------------------------------------------------
\* PIDController::set_ki and VelocityController::set_latest_command
\* ------------------------------------------------------------------------
set_ki(k, m, value) == [k EXCEPT ![m] = value]

\* A set_latest_command that keeps a command it already holds.
set_latest_command_keeps_first(command) ==
    IF latest_command_ # Zero3 THEN latest_command_ ELSE command

set_latest_command(command) == command

\* ------------------------------------------------------------------------
\* cmd_vel_subscription_callback (core.cpp:177-209)
\* ------------------------------------------------------------------------
\* SelectKi with the rotational test first (the precedence reversed).
SelectKi_rotational_first(s) ==
    IF NGt(NAbs(s[3]), FromRat(RotationalThreshold))
    THEN RMul(base_ki, modifier_ki_rotational)
    ELSE IF NGt(NAbs(s[1]), FromRat(LinearThreshold))
            \/ NGt(NAbs(s[2]), FromRat(LinearThreshold))
         THEN RMul(base_ki, modifier_ki_linear)
         ELSE base_ki

\* The ki the callback selects for a smoothed command.
SelectKi(s) ==
    IF NGt(NAbs(s[1]), FromRat(LinearThreshold))
       \/ NGt(NAbs(s[2]), FromRat(LinearThreshold))
    THEN RMul(base_ki, modifier_ki_linear)
    ELSE IF NGt(NAbs(s[3]), FromRat(RotationalThreshold))
         THEN RMul(base_ki, modifier_ki_rotational)
         ELSE base_ki

\* The callback with the yaw-rate sample pushed through cmd_vel_filter_x's
\* window size (the filters mixed up).
cmd_vel_subscription_callback_mixed_filters(msg) ==
    LET wx == MovingAverageWindow(cmd_vel_filter_x, cmd_vel_filter_x_window, msg[1])
        wy == MovingAverageWindow(cmd_vel_filter_y, cmd_vel_filter_y_window, msg[2])
        wr == MovingAverageWindow(cmd_vel_filter_rot, cmd_vel_filter_x_window, msg[3])
        s  == <<MovingAverageOutput(wx), MovingAverageOutput(wy),
                MovingAverageOutput(wr)>>
        k  == SelectKi(s)
    IN  /\ cmd_vel_filter_x' = wx
        /\ cmd_vel_filter_y' = wy
        /\ cmd_vel_filter_rot' = wr
        /\ smoothed_cmd_vel' = s
        /\ ki' = set_ki(set_ki(set_ki(set_ki(ki, 1, k), 2, k), 3, k), 4, k)
        /\ latest_command_' = set_latest_command(s)
        /\ delivered' = Append(delivered, msg)

cmd_vel_subscription_callback(msg) ==
    LET wx == MovingAverageWindow(cmd_vel_filter_x, cmd_vel_filter_x_window, msg[1])
        wy == MovingAverageWindow(cmd_vel_filter_y, cmd_vel_filter_y_window, msg[2])
        wr == MovingAverageWindow(cmd_vel_filter_rot, cmd_vel_filter_rot_window, msg[3])
        s  == <<MovingAverageOutput(wx), MovingAverageOutput(wy),
                MovingAverageOutput(wr)>>
        k  == SelectKi(s)
    IN  /\ cmd_vel_filter_x' = wx
        /\ cmd_vel_filter_y' = wy
        /\ cmd_vel_filter_rot' = wr
        /\ smoothed_cmd_vel' = s
        /\ ki' = set_ki(set_ki(set_ki(set_ki(ki, 1, k), 2, k), 3, k), 4, k)
        /\ latest_command_' = set_latest_command(s)
        /\ delivered' = Append(delivered, msg)

\* ------------------------------------------------------------------------
\* PID regulators and motor channels
\* ------------------------------------------------------------------------
\* controller_M0..M3 as constructed (core.cpp:66-73).
controller(m) ==
    [kp |-> base_kp, ki |-> base_ki, kd |-> base_kd,
     max_expected_sampling_time |-> max_expected_sampling_time,
     max_integral |-> max_integral]

\* The channels constructed without a minimum output.
motor_controller_no_min_output(m) == [min_output |-> R0]

\* motor_controller_M0..M3 as constructed (core.cpp:102-113): pass-through
\* input and output filters, minimum output MIN_OUTPUT.
motor_controller(m) == [min_output |-> MIN_OUTPUT]

Clamp(x, lo, hi) == IF NLt(x, lo) THEN lo ELSE IF NGt(x, hi) THEN hi ELSE x

\* PIDCompute with the accumulator left unclamped.
PIDCompute_unclamped(c, k, integ, prev, setpoint, meas, dtp) ==
    LET error        == NSub(setpoint, meas)
        proportional == NScale(c.kp, error)
    IN  IF ~RLt(R0, dtp) \/ RLt(c.max_expected_sampling_time, dtp)
        THEN [integral |-> integ, previous_error |-> prev,
              output |-> proportional]
        ELSE LET acc  == NAdd(integ, NScale(RMul(k, dtp), error))
                 derivative == NScale(RDiv(c.kd, dtp), NSub(error, prev))
             IN  [integral |-> acc, previous_error |-> error,
                  output |-> NAdd(NAdd(proportional, acc), derivative)]

\* PIDController compute (spec 4.3) of a regulator with gains c and integral
\* gain k: the accumulator, the previous error and the control output after
\* one call with sampling interval dtp.
PIDCompute(c, k, integ, prev, setpoint, meas, dtp) ==
    LET error        == NSub(setpoint, meas)
        proportional == NScale(c.kp, error)
    IN  IF ~RLt(R0, dtp) \/ RLt(c.max_expected_sampling_time, dtp)
        THEN [integral |-> integ, previous_error |-> prev,
              output |-> proportional]
        ELSE LET acc  == NAdd(integ, NScale(RMul(k, dtp), error))
                 i2   == Clamp(acc, FromRat(RNeg(c.max_integral)),
                               FromRat(c.max_integral))
                 derivative == NScale(RDiv(c.kd, dtp), NSub(error, prev))
             IN  [integral |-> i2, previous_error |-> error,
                  output |-> NAdd(NAdd(proportional, i2), derivative)]

\* Deadband compensation of a motor channel (spec 4.4).
Deadband(filtered, tgt, min_output) ==
    IF filtered # NZero /\ tgt # NZero
       /\ NLt(NAbs(filtered), FromRat(min_output))
    THEN IF NSign(filtered) < 0 THEN FromRat(RNeg(min_output))
                                ELSE FromRat(min_output)
    ELSE filtered

\* PIDMotorController update (spec 4.4) of channel m with target tgt,
\* reading the raw encoder velocity raw.
ChannelUpdate(m, tgt, raw, dtp) ==
    LET input == NoFilterUpdate(raw)
        pid   == PIDCompute(controller(m), ki[m], integral[m],
                            previous_error[m], tgt, input, dtp)
        filtered == NoFilterUpdate(pid.output)
    IN  [integral |-> pid.integral, previous_error |-> pid.previous_error,
         measured |-> input, regulated |-> filtered,
         output |-> Deadband(filtered, tgt, motor_controller(m).min_output)]

\* MotorControllerManager: update the four channels, in index order, with
\* the targets tgt; the channels share no state.
ManagerUpdate(tgt, raw, dtp) ==
    LET ch == [m \in Motors |-> ChannelUpdate(m, tgt[m], raw[m], dtp)]
    IN  /\ integral' = [m \in Motors |-> ch[m].integral]
        /\ previous_error' = [m \in Motors |-> ch[m].previous_error]
        /\ measured' = [m \in Motors |-> ch[m].measured]
        /\ regulated' = [m \in Motors |-> ch[m].regulated]
        /\ output' = [m \in Motors |-> ch[m].output]
        /\ chan_op' = "update"
        /\ chan_updates' = chan_updates + 1

\* ------------------------------------------------------------------------
\* Kinematics (kinematics.hpp:43-73, spec 4.1)
\* ------------------------------------------------------------------------
MecanumKinematics4W(wheel_radius, wheel_base, track_width) ==
    [wheel_radius_ |-> wheel_radius, wheel_base_ |-> wheel_base,
     track_width_ |-> track_width]

\* k = a + b, half the wheel base plus half the track width.
GeometryFactor(g) ==
    RAdd(RMul(Q(1, 2), g.wheel_base_), RMul(Q(1, 2), g.track_width_))

\* Inverse kinematics: wheel velocities (FL, FR, BL, BR) of a body velocity.
calculate_wheel_velocity(g, v) ==
    LET k    == GeometryFactor(g)
        rinv == RDiv(R1, g.wheel_radius_)
        kw   == NScale(k, v[3])
    IN  << NScale(rinv, NSub(NSub(v[1], v[2]), kw)),
           NScale(rinv, NAdd(NAdd(v[1], v[2]), kw)),
           NScale(rinv, NSub(NAdd(v[1], v[2]), kw)),
           NScale(rinv, NAdd(NSub(v[1], v[2]), kw)) >>

\* Forward kinematics with the yaw rate not divided by the geometry factor.
calculate_robot_velocity_no_factor(g, w) ==
    LET r4 == RMul(g.wheel_radius_, Q(1, 4))
    IN  << NScale(r4, NAdd(NAdd(w[1], w[2]), NAdd(w[3], w[4]))),
           NScale(r4, NAdd(NSub(w[2], w[1]), NSub(w[3], w[4]))),
           NScale(r4, NAdd(NSub(w[2], w[1]), NSub(w[4], w[3]))) >>

\* Forward kinematics: the least-squares body velocity of four wheel
\* velocities.
calculate_robot_velocity(g, w) ==
    LET r4  == RMul(g.wheel_radius_, Q(1, 4))
        r4k == RDiv(r4, GeometryFactor(g))
    IN  << NScale(r4, NAdd(NAdd(w[1], w[2]), NAdd(w[3], w[4]))),
           NScale(r4, NAdd(NSub(w[2], w[1]), NSub(w[3], w[4]))),
           NScale(r4k, NAdd(NSub(w[2], w[1]), NSub(w[4], w[3]))) >>

\* The kinematics object of core.cpp:119; the geometry of conf_hardware.h is
\* that of the spec's end-to-end scenario (r = 0.05, a = b = 0.1).
WHEEL_RADIUS == Q(5, 100)
WHEEL_BASE   == Q(2, 10)
TRACK_WIDTH  == Q(2, 10)
kinematics == MecanumKinematics4W(WHEEL_RADIUS, WHEEL_BASE, TRACK_WIDTH)

\* ------------------------------------------------------------------------
\* Pose integration (core.cpp:417-429)
\* ------------------------------------------------------------------------
\* sin, cos and atan2 at the angles the model reaches: the multiples of pi/2.
QuarterTurns(x) == ((2 * x[2][1]) \div x[2][2]) % 4
OnQuarterGrid(x) == x[1] = R0 /\ x[2][2] \in {1, 2}

sin(x) ==
    CASE OnQuarterGrid(x) /\ QuarterTurns(x) = 0 -> 0
      [] OnQuarterGrid(x) /\ QuarterTurns(x) = 1 -> 1
      [] OnQuarterGrid(x) /\ QuarterTurns(x) = 2 -> 0
      [] OnQuarterGrid(x) /\ QuarterTurns(x) = 3 -> -1

cos(x) ==
    CASE OnQuarterGrid(x) /\ QuarterTurns(x) = 0 -> 1
      [] OnQuarterGrid(x) /\ QuarterTurns(x) = 1 -> 0
      [] OnQuarterGrid(x) /\ QuarterTurns(x) = 2 -> -1
      [] OnQuarterGrid(x) /\ QuarterTurns(x) = 3 -> 0

atan2(y, x) ==
    CASE y = 0 /\ x = 1 -> NZero
      [] y = 1 /\ x = 0 -> PiTimes(Q(1, 2))
      [] y = 0 /\ x = -1 -> PiTimes(R1)
      [] y = -1 /\ x = 0 -> PiTimes(Q(-1, 2))

\* v * c * d for a trigonometric value c in {-1, 0, 1}.
Times(v, c, d) == NScale(RMul(Q(c, 1), d), v)

\* The pose integration with the heading advanced before x and y.
IntegratePose_heading_first(p, v, d) ==
    LET t1 == NAdd(p[3], NScale(d, v[3]))
        t2 == atan2(sin(t1), cos(t1))
        x  == NAdd(p[1], NSub(Times(v[1], cos(t2), d), Times(v[2], sin(t2), d)))
        y  == NAdd(p[2], NAdd(Times(v[1], sin(t2), d), Times(v[2], cos(t2), d)))
    IN  <<x, y, t2>>

\* core.cpp:424-429.
IntegratePose(p, v, d) ==
    LET x  == NAdd(p[1], NSub(Times(v[1], cos(p[3]), d), Times(v[2], sin(p[3]), d)))
        y  == NAdd(p[2], NAdd(Times(v[1], sin(p[3]), d), Times(v[2], cos(p[3]), d)))
        t1 == NAdd(p[3], NScale(d, v[3]))
    IN  <<x, y, atan2(sin(t1), cos(t1))>>

\* core.cpp:417-429: read the estimate, measure dt, integrate the pose.
\* now is the value of millis().
OdometryStep(estimate, now) ==
    /\ robot_velocity' = estimate
    /\ dt' = Q(now - last_time, 1000)
    /\ last_time' = now
    /\ pose' = IntegratePose(pose, estimate, Q(now - last_time, 1000))
    /\ odom_steps' = odom_steps + 1

\* ------------------------------------------------------------------------
\* Initial state: the globals as constructed
\* ------------------------------------------------------------------------
InitCmd ==
    /\ cmd_vel_filter_x = <<>>
    /\ cmd_vel_filter_y = <<>>
    /\ cmd_vel_filter_rot = <<>>
    /\ smoothed_cmd_vel = Zero3
    /\ ki = [m \in Motors |-> base_ki]
    /\ latest_command_ = Zero3
    /\ delivered = <<>>

InitChan ==
    /\ target = Zero4
    /\ integral = Zero4
    /\ previous_error = Zero4
    /\ regulated = Zero4
    /\ output = Zero4
    /\ measured = Zero4
    /\ chan_op = "init"
    /\ chan_updates = 0

InitOdom ==
    /\ last_time = 0
    /\ robot_velocity = Zero3
    /\ dt = R0
    /\ pose = Zero3
    /\ odom_steps = 0

\* The calls setup() wraps in INIT, in program order (core.cpp:274-284; DEBUG
\* is defined at core.cpp:16).
InitCalls ==
    << "rclc_support_init", "rclc_node_init_default", "odom_publisher",
       "joint_state_publisher", "wanted_joint_state_publisher",
       "diagnostic_publisher", "cmd_vel_subscriber", "rclc_executor_init",
       "rclc_executor_add_subscription" >>

InitSteps == 1 .. Len(InitCalls)

\* setup() has returned after every INIT call succeeded at the first attempt
\* (core.cpp:288-289 leave the LED pin an output driven high).
SetupCompleted ==
    /\ init_index = Len(InitCalls) + 1
    /\ init_attempts = [i \in InitSteps |-> [tries |-> 1, ok |-> TRUE]]
    /\ led = [mode |-> "OUTPUT", level |-> "HIGH"]

\* What malloc(4 * sizeof(double)) may hold: the heap block is not cleared.
Leftover == <<FromRat(Q(7, 1)), FromRat(Q(-3, 1)), NZero, FromRat(Q(1, 2))>>
HeapGarbage == {Zero4, Leftover}

\* The state setup() leaves (core.cpp:254-340): the joint state arrays are
\* allocated and not written (loop() overwrites the velocity array before
\* it reads it, so one heap content stands for all); wanted_joint_state_msg
\* is never touched, its velocity sequence stays the zero-initialised global
\* (data NULL, size 0).
InitLoop ==
    /\ pc = "spin"
    /\ inbox = <<>>
    /\ published = 0
    /\ cycles = 0
    /\ robot_velocity_ = Zero3
    /\ update_saw = [ki |-> [m \in Motors |-> base_ki], command |-> Zero3]
    /\ odom_msg = [x |-> NZero, y |-> NZero, w |-> <<0, 0>>, z |-> <<0, 0>>,
                   linear_x |-> NZero, linear_y |-> NZero,
                   angular_z |-> NZero]
    /\ \E p \in HeapGarbage :
           joint_state_msg = [position |-> p, velocity |-> Leftover]
    /\ wanted_joint_state_msg = [allocated |-> FALSE, size |-> 0,
                                 velocity |-> <<>>]
    /\ odom_out = <<>>
    /\ joint_out = <<>>
    /\ wanted_out = <<>>
    /\ joint_sum = Zero4
    /\ null_stores = FALSE
    /\ SetupCompleted

\* Outside SpecKin the kinematics under test is the program's, at rest.
IdleKin ==
    /\ kin_geom = kinematics
    /\ kin_v = Zero3
    /\ kin_wheels = Zero4
    /\ kin_back = Zero3
    /\ kin_pc = "start"

Init == InitCmd /\ InitChan /\ InitOdom /\ IdleKin /\ InitLoop

\* ------------------------------------------------------------------------
\* SpecCmd: the command path alone, one callback per delivered message
\* ------------------------------------------------------------------------
DeliverCmd ==
    \E msg \in CmdSet :
        /\ Len(delivered) < MaxCmds
        /\ cmd_vel_subscription_callback(msg)
        /\ UNCHANGED <<chanVars, kinVars, odomVars, loopVars, setupVars>>

NextCmd == DeliverCmd

SpecCmd == Init /\ [][NextCmd]_vars

\* ------------------------------------------------------------------------
\* SpecChannel: the motor array alone, retuned, targeted and updated
\* ------------------------------------------------------------------------
Retune ==
    \E k \in KiSet :
        /\ ki' = set_ki(set_ki(set_ki(set_ki(ki, 1, k), 2, k), 3, k), 4, k)
        /\ chan_op' = "set_ki"
        /\ UNCHANGED <<target, integral, previous_error, regulated, output,
                       measured, chan_updates>>
        /\ UNCHANGED <<cmdVars, kinVars, odomVars, loopVars, setupVars>>

SetTargets ==
    \E t \in TargetSet :
        /\ target' = t
        /\ chan_op' = "set_target"
        /\ UNCHANGED <<integral, previous_error, regulated, output, measured,
                       chan_updates>>
        /\ UNCHANGED <<cmdVars, ki, kinVars, odomVars, loopVars, setupVars>>

UpdateChannels ==
    \E raw \in RawSet, dtp \in PidDtSet :
        /\ chan_updates < MaxUpdates
        /\ ManagerUpdate(target, raw, dtp)
        /\ UNCHANGED <<target, cmdVars, ki, kinVars, odomVars, loopVars, setupVars>>

NextChannel == Retune \/ SetTargets \/ UpdateChannels

SpecChannel == Init /\ [][NextChannel]_vars

\* ------------------------------------------------------------------------
\* VelocityController (velocity_controller.hpp, spec 4.6)
\* ------------------------------------------------------------------------
\* update(): inverse kinematics of the latest command, targets fanned out,
\* every channel updated, forward kinematics of the measured velocities.
VelocityController_update(raw, dtp) ==
    LET wheels == calculate_wheel_velocity(kinematics, latest_command_)
    IN  /\ target' = wheels
        /\ ManagerUpdate(wheels, raw, dtp)
        /\ robot_velocity_' = calculate_robot_velocity(kinematics, measured')
        /\ update_saw' = [ki |-> ki, command |-> latest_command_]

get_robot_velocity == robot_velocity_

get_set_wheel_velocities == target

\* ------------------------------------------------------------------------
\* loop() (core.cpp:347-499)
\* ------------------------------------------------------------------------
\* The statements of loop() in program order; time synchronisation and the
\* diagnostics between them act on no state of the model.
loop_next_update_before_spin(p) ==
    CASE p = "update"             -> "spin"
      [] p = "spin"               -> "read"
      [] p = "read"               -> "integrate"
      [] p = "integrate"          -> "publish_odom"
      [] p = "publish_odom"       -> "joint_state"
      [] p = "joint_state"        -> "wanted_joint_state"
      [] p = "wanted_joint_state" -> "update"

loop_next(p) ==
    CASE p = "spin"               -> "update"
      [] p = "update"             -> "read"
      [] p = "read"               -> "integrate"
      [] p = "integrate"          -> "publish_odom"
      [] p = "publish_odom"       -> "joint_state"
      [] p = "joint_state"        -> "wanted_joint_state"
      [] p = "wanted_joint_state" -> "spin"

\* cos(theta / 2) and sin(theta / 2) of a wrapped heading on the grid, as
\* <<a, b>> for a + b * sqrt(2)/2.
cos_half(t) ==
    CASE t = NZero               -> <<1, 0>>
      [] t = PiTimes(Q(1, 2))    -> <<0, 1>>
      [] t = PiTimes(Q(-1, 2))   -> <<0, 1>>
      [] t = PiTimes(R1)         -> <<0, 0>>

sin_half(t) ==
    CASE t = NZero               -> <<0, 0>>
      [] t = PiTimes(Q(1, 2))    -> <<0, 1>>
      [] t = PiTimes(Q(-1, 2))   -> <<0, -1>>
      [] t = PiTimes(R1)         -> <<1, 0>>

\* A cmd_vel message arrives from the agent (at any point of the loop).
Receive ==
    \E msg \in LoopCmdSet :
        /\ published < MaxPublished
        /\ inbox' = Append(inbox, msg)
        /\ published' = published + 1
        /\ UNCHANGED <<pc, cycles, robot_velocity_, update_saw, odom_msg,
                       joint_state_msg, wanted_joint_state_msg, odom_out,
                       joint_out, wanted_out, joint_sum, null_stores>>
        /\ UNCHANGED <<cmdVars, ki, chanVars, kinVars, odomVars, setupVars>>

\* core.cpp:391, rclc_executor_spin_some: one pending message, if any, is
\* taken and the callback run on it.
LoopSpin ==
    /\ pc = "spin"
    /\ cycles < MaxCycles
    /\ pc' = loop_next(pc)
    /\ IF inbox # <<>>
       THEN /\ cmd_vel_subscription_callback(Head(inbox))
            /\ inbox' = Tail(inbox)
       ELSE UNCHANGED <<cmdVars, ki, inbox>>
    /\ UNCHANGED <<published, cycles, robot_velocity_, update_saw, odom_msg,
                   joint_state_msg, wanted_joint_state_msg, odom_out,
                   joint_out, wanted_out, joint_sum, null_stores>>
    /\ UNCHANGED <<chanVars, kinVars, odomVars, setupVars>>

\* core.cpp:404, robot_controller.update().
LoopUpdate ==
    \E raw \in LoopRawSet, dtp \in LoopPidDtSet :
        /\ pc = "update"
        /\ pc' = loop_next(pc)
        /\ VelocityController_update(raw, dtp)
        /\ UNCHANGED <<inbox, published, cycles, odom_msg, joint_state_msg,
                       wanted_joint_state_msg, odom_out, joint_out, wanted_out,
                       joint_sum, null_stores>>
        /\ UNCHANGED <<cmdVars, ki, kinVars, odomVars, setupVars>>

\* core.cpp:417-422: the estimate is read and dt measured.
LoopRead ==
    \E period \in PeriodSet :
        /\ pc = "read"
        /\ pc' = loop_next(pc)
        /\ robot_velocity' = get_robot_velocity
        /\ dt' = Q((last_time + period) - last_time, 1000)
        /\ last_time' = last_time + period
        /\ UNCHANGED <<pose, odom_steps>>
        /\ UNCHANGED <<inbox, published, cycles, robot_velocity_, update_saw,
                       odom_msg, joint_state_msg, wanted_joint_state_msg,
                       odom_out, joint_out, wanted_out, joint_sum, null_stores>>
        /\ UNCHANGED <<cmdVars, ki, chanVars, kinVars, setupVars>>

\* core.cpp:424-429.
LoopIntegrate ==
    /\ pc = "integrate"
    /\ pc' = loop_next(pc)
    /\ pose' = IntegratePose(pose, robot_velocity, dt)
    /\ odom_steps' = odom_steps + 1
    /\ UNCHANGED <<last_time, robot_velocity, dt>>
    /\ UNCHANGED <<inbox, published, cycles, robot_velocity_, update_saw,
                   odom_msg, joint_state_msg, wanted_joint_state_msg, odom_out,
                   joint_out, wanted_out, joint_sum, null_stores>>
    /\ UNCHANGED <<cmdVars, ki, chanVars, kinVars, setupVars>>

\* core.cpp:431-447: odom_msg is filled and published.
LoopPublishOdom ==
    LET msg == [x |-> pose[1], y |-> pose[2],
                w |-> cos_half(pose[3]), z |-> sin_half(pose[3]),
                linear_x |-> robot_velocity[1],
                linear_y |-> robot_velocity[2],
                angular_z |-> robot_velocity[3]]
    IN  /\ pc = "publish_odom"
        /\ pc' = loop_next(pc)
        /\ odom_msg' = msg
        /\ odom_out' = msg
        /\ UNCHANGED <<inbox, published, cycles, robot_velocity_, update_saw,
                       joint_state_msg, wanted_joint_state_msg, joint_out,
                       wanted_out, joint_sum, null_stores>>
        /\ UNCHANGED <<cmdVars, ki, chanVars, kinVars, odomVars, setupVars>>

\* core.cpp:462-480: the joint state message is updated and published.
LoopJointState ==
    LET wheel_velocities == calculate_wheel_velocity(kinematics, robot_velocity)
        msg == [position |-> VAdd(joint_state_msg.position,
                                  VScale(dt, wheel_velocities)),
                velocity |-> wheel_velocities]
    IN  /\ pc = "joint_state"
        /\ pc' = loop_next(pc)
        /\ joint_state_msg' = msg
        /\ joint_out' = msg
        /\ joint_sum' = VAdd(joint_sum, VScale(dt, wheel_velocities))
        /\ UNCHANGED <<inbox, published, cycles, robot_velocity_, update_saw,
                       odom_msg, wanted_joint_state_msg, odom_out, wanted_out,
                       null_stores>>
        /\ UNCHANGED <<cmdVars, ki, chanVars, kinVars, odomVars, setupVars>>

\* core.cpp:482-498: the four target velocities are stored through
\* wanted_joint_state_msg.velocity.data and the message is published.  The
\* pointer is null, so the stores are undefined: either they go through
\* without a fault (this action; the message goes out with its size of 0) or
\* they fault (LoopWantedFault).
LoopWantedJointState ==
    /\ pc = "wanted_joint_state"
    /\ pc' = loop_next(pc)
    /\ IF wanted_joint_state_msg.allocated
       THEN /\ wanted_joint_state_msg' =
                   [wanted_joint_state_msg EXCEPT
                        !.velocity = get_set_wheel_velocities]
            /\ UNCHANGED null_stores
       ELSE /\ null_stores' = TRUE
            /\ UNCHANGED wanted_joint_state_msg
    /\ wanted_out' = wanted_joint_state_msg'.velocity
    /\ cycles' = cycles + 1
    /\ UNCHANGED <<inbox, published, robot_velocity_, update_saw, odom_msg,
                   joint_state_msg, odom_out, joint_out, joint_sum>>
    /\ UNCHANGED <<cmdVars, ki, chanVars, kinVars, odomVars, setupVars>>

\* The same stores fault: the processor traps and loop() is not resumed (a
\* restart of the firmware is a new behaviour from Init).
LoopWantedFault ==
    /\ pc = "wanted_joint_state"
    /\ ~wanted_joint_state_msg.allocated
    /\ pc' = "fault"
    /\ null_stores' = TRUE
    /\ UNCHANGED <<inbox, published, cycles, robot_velocity_, update_saw,
                   odom_msg, joint_state_msg, wanted_joint_state_msg, odom_out,
                   joint_out, wanted_out, joint_sum>>
    /\ UNCHANGED <<cmdVars, ki, chanVars, kinVars, odomVars, setupVars>>

Next ==
    \/ Receive
    \/ LoopSpin
    \/ LoopUpdate
    \/ LoopRead
    \/ LoopIntegrate
    \/ LoopPublishOdom
    \/ LoopJointState
    \/ LoopWantedJointState
    \/ LoopWantedFault

Spec == Init /\ [][Next]_vars

\* ------------------------------------------------------------------------
\* SpecKin: the kinematics alone, a body velocity mapped to wheels and back
\* ------------------------------------------------------------------------
InitKin ==
    /\ InitCmd /\ InitChan /\ InitOdom /\ InitLoop
    /\ \E g \in GeometrySet : kin_geom = MecanumKinematics4W(g[1], g[2], g[3])
    /\ kin_v \in BodyVelocitySet
    /\ kin_wheels = Zero4
    /\ kin_back = Zero3
    /\ kin_pc = "start"

KinInverse ==
    /\ kin_pc = "start"
    /\ kin_wheels' = calculate_wheel_velocity(kin_geom, kin_v)
    /\ kin_pc' = "inverse"
    /\ UNCHANGED <<kin_geom, kin_v, kin_back>>
    /\ UNCHANGED <<cmdVars, ki, chanVars, odomVars, loopVars, setupVars>>

KinForward ==
    /\ kin_pc = "inverse"
    /\ kin_back' = calculate_robot_velocity(kin_geom, kin_wheels)
    /\ kin_pc' = "done"
    /\ UNCHANGED <<kin_geom, kin_v, kin_wheels>>
    /\ UNCHANGED <<cmdVars, ki, chanVars, odomVars, loopVars, setupVars>>

NextKin == KinInverse \/ KinForward

SpecKin == InitKin /\ [][NextKin]_vars

\* ------------------------------------------------------------------------
\* SpecOdom: the pose integration alone, fed velocity estimates
\* ------------------------------------------------------------------------
OdomCycle ==
    \E estimate \in EstimateSet, period \in PeriodSet :
        /\ odom_steps < MaxOdomSteps
        /\ OdometryStep(estimate, last_time + period)
        /\ UNCHANGED <<cmdVars, ki, chanVars, kinVars, loopVars, setupVars>>

NextOdom == OdomCycle

SpecOdom == Init /\ [][NextOdom]_vars

\* ------------------------------------------------------------------------
\* SpecSetup: setup() (core.cpp:254-340) from reset to the first loop()
\* ------------------------------------------------------------------------
\* rcl_ret_t: success and the failures (any nonzero code is handled alike).
RCL_RET_OK == 0
RCL_RET_ERROR == 1
RclReturns == {RCL_RET_OK, RCL_RET_ERROR}

\* Where setup() stands: about to make an INIT call, in the failure branch
\* after digitalWrite(HIGH) or after digitalWrite(LOW), or past the INIT
\* calls at the message initialisation.
SetupPcs == {"init", "led_high", "led_low", "messages"}

\* The state at reset, before setup(): the globals as constructed, the message
\* structures zero-initialised, no heap block allocated, the LED pin not yet
\* configured.
InitBoot ==
    /\ InitCmd /\ InitChan /\ InitOdom /\ IdleKin
    /\ pc = "init"
    /\ inbox = <<>>
    /\ published = 0
    /\ cycles = 0
    /\ robot_velocity_ = Zero3
    /\ update_saw = [ki |-> [m \in Motors |-> base_ki], command |-> Zero3]
    /\ odom_msg = [x |-> NZero, y |-> NZero, w |-> <<0, 0>>, z |-> <<0, 0>>,
                   linear_x |-> NZero, linear_y |-> NZero,
                   angular_z |-> NZero]
    /\ joint_state_msg = [position |-> <<>>, velocity |-> <<>>]
    /\ wanted_joint_state_msg = [allocated |-> FALSE, size |-> 0,
                                 velocity |-> <<>>]
    /\ odom_out = <<>>
    /\ joint_out = <<>>
    /\ wanted_out = <<>>
    /\ joint_sum = Zero4
    /\ null_stores = FALSE
    /\ init_index = 1
    /\ init_attempts = [i \in InitSteps |-> [tries |-> 0, ok |-> FALSE]]
    /\ led = [mode |-> "INPUT", level |-> "LOW"]

\* An INIT that returns whatever the call returned, without retrying.
performInitializationWithFeedback_no_retry(ret) == "return"

\* performInitializationWithFeedback (core.cpp:228-245): what follows a call
\* of initFunction that returned ret.
performInitializationWithFeedback(ret) ==
    IF ret = RCL_RET_OK THEN "return" ELSE "led_high"

\* One call of initFunction inside INIT, returning ret.
InitCall(ret) ==
    LET i      == init_index
        tries  == IF init_attempts[i].tries < MaxAttempts
                  THEN init_attempts[i].tries + 1
                  ELSE MaxAttempts
        follow == performInitializationWithFeedback(ret)
    IN  /\ pc = "init"
        /\ init_attempts' =
               [init_attempts EXCEPT ![i] = [tries |-> tries,
                                             ok |-> ret = RCL_RET_OK]]
        /\ IF follow = "return"
           THEN /\ init_index' = i + 1
                /\ pc' = IF i = Len(InitCalls) THEN "messages" ELSE "init"
           ELSE /\ init_index' = i
                /\ pc' = follow
        /\ UNCHANGED led
        /\ UNCHANGED <<inbox, published, cycles, robot_velocity_, update_saw,
                       odom_msg, joint_state_msg, wanted_joint_state_msg,
                       odom_out, joint_out, wanted_out, joint_sum, null_stores>>
        /\ UNCHANGED <<cmdVars, ki, chanVars, kinVars, odomVars>>

\* core.cpp:239-240: digitalWrite(LED_BUILTIN, HIGH); delay(100).
BlinkHigh ==
    /\ pc = "led_high"
    /\ pc' = "led_low"
    /\ led' = [led EXCEPT !.level = "HIGH"]
    /\ UNCHANGED <<init_index, init_attempts>>
    /\ UNCHANGED <<inbox, published, cycles, robot_velocity_, update_saw,
                   odom_msg, joint_state_msg, wanted_joint_state_msg,
                   odom_out, joint_out, wanted_out, joint_sum, null_stores>>
    /\ UNCHANGED <<cmdVars, ki, chanVars, kinVars, odomVars>>

\* core.cpp:241-242: digitalWrite(LED_BUILTIN, LOW); delay(100); the while
\* loop calls initFunction again.
BlinkLow ==
    /\ pc = "led_low"
    /\ pc' = "init"
    /\ led' = [led EXCEPT !.level = "LOW"]
    /\ UNCHANGED <<init_index, init_attempts>>
    /\ UNCHANGED <<inbox, published, cycles, robot_velocity_, update_saw,
                   odom_msg, joint_state_msg, wanted_joint_state_msg,
                   odom_out, joint_out, wanted_out, joint_sum, null_stores>>
    /\ UNCHANGED <<cmdVars, ki, chanVars, kinVars, odomVars>>

\* core.cpp:287-339: the LED is lit, the frame ids and covariances of odom_msg
\* are set, joint_state_msg gets its names and its two arrays of 4 doubles
\* from malloc; wanted_joint_state_msg is not touched.  setup() returns and
\* the framework calls loop().
SetupMessages ==
    /\ pc = "messages"
    /\ pc' = "spin"
    /\ led' = [mode |-> "OUTPUT", level |-> "HIGH"]
    /\ \E p \in HeapGarbage :
           joint_state_msg' = [position |-> p, velocity |-> Leftover]
    /\ UNCHANGED <<init_index, init_attempts>>
    /\ UNCHANGED <<inbox, published, cycles, robot_velocity_, update_saw,
                   odom_msg, wanted_joint_state_msg, odom_out, joint_out,
                   wanted_out, joint_sum, null_stores>>
    /\ UNCHANGED <<cmdVars, ki, chanVars, kinVars, odomVars>>

NextSetup ==
    \/ \E ret \in RclReturns : InitCall(ret)
    \/ BlinkHigh
    \/ BlinkLow
    \/ SetupMessages

\* The processor keeps executing setup(); a call that is retried for ever
\* returns RCL_RET_OK at some attempt (the agent and the transport come up).
FairSetup ==
    /\ WF_vars(BlinkHigh)
    /\ WF_vars(BlinkLow)
    /\ WF_vars(SetupMessages)
    /\ SF_vars(InitCall(RCL_RET_OK))

SpecSetup == InitBoot /\ [][NextSetup]_vars /\ FairSetup

\* ========================================================================
\* Claims
\* ========================================================================
\* The mean of component i of the last W delivered messages (of all of them
\* while fewer than W were delivered).
WindowMean(i, W) ==
    LET n  == Len(delivered)
        lo == IF n > W THEN n - W + 1 ELSE 1
    IN  NScale(Q(1, n - lo + 1),
               SumSeq([j \in 1 .. (n - lo + 1) |-> delivered[lo + j - 1][i]]))

SmoothedDelivered ==
    <<WindowMean(1, cmd_vel_filter_x_window),
      WindowMean(2, cmd_vel_filter_y_window),
      WindowMean(3, cmd_vel_filter_rot_window)>>

\* C1 (as amended): after the delivered commands c1..cn, the command stored in
\* the velocity controller is, per component, the mean of the last 2 (vx),
\* 2 (vy) and 4 (yaw rate) delivered values; set_latest_command overwrites the
\* stored command and queues nothing.
C1_StoredIsWindowMean ==
    delivered # <<>> => latest_command_ = SmoothedDelivered

\* C1 witness: five commands were delivered (every window has dropped a
\* sample) and the stored command is not the last one delivered.
C1_Witness ==
    /\ Len(delivered) >= 5
    /\ latest_command_ # Last(delivered)
    /\ latest_command_ = SmoothedDelivered

\* C1 as stated: the stored command is exactly the last delivered command.
C1_StoredIsLastDelivered ==
    delivered # <<>> => latest_command_ = Last(delivered)

\* The ki the claim assigns to a command (vx, vy, w).
ClaimedKi(v) ==
    IF NGt(NAbs(v[1]), FromRat(Q(1, 2))) \/ NGt(NAbs(v[2]), FromRat(Q(1, 2)))
    THEN RMul(base_ki, modifier_ki_linear)
    ELSE IF NGt(NAbs(v[3]), FromRat(R1))
         THEN RMul(base_ki, modifier_ki_rotational)
         ELSE base_ki

\* C2 (as amended): after a command is received all four regulators hold the
\* same ki, selected (linear class before rotational class) by the smoothed
\* command, i.e. the window means of the delivered commands.
C2_KiFromSmoothedCommand ==
    delivered # <<>> =>
        \A m \in Motors : ki[m] = ClaimedKi(SmoothedDelivered)

\* C2 witness: the smoothed command exceeds both thresholds, the linear ki is
\* selected, and the command just received alone would select another ki.
C2_Witness ==
    /\ Len(delivered) >= 2
    /\ NGt(NAbs(smoothed_cmd_vel[3]), FromRat(R1))
    /\ \A m \in Motors : ki[m] = RMul(base_ki, modifier_ki_linear)
    /\ ClaimedKi(Last(delivered)) # ki[1]

\* C2 as stated: the ki is selected by the command just received.
C2_KiFromReceivedCommand ==
    delivered # <<>> =>
        \A m \in Motors : ki[m] = ClaimedKi(Last(delivered))

\* C3: after a motor channel update with a nonzero target, the value sent to
\* the driver is zero or of magnitude at least MIN_OUTPUT, never strictly
\* between, and has the sign of the filtered regulator output; when the
\* filtered output is zero or the target is zero the filtered output is sent
\* as it is.
C3_Deadband ==
    chan_op = "update" =>
        \A m \in Motors :
            /\ target[m] # NZero =>
                   /\ \/ output[m] = NZero
                      \/ NLe(FromRat(MIN_OUTPUT), NAbs(output[m]))
                   /\ NSign(output[m]) = NSign(regulated[m])
            /\ (regulated[m] = NZero \/ target[m] = NZero) =>
                   output[m] = regulated[m]

\* C3 witness: one update floored a small nonzero output of a channel with a
\* nonzero target up to MIN_OUTPUT, left the zero output of a second such
\* channel at zero, and sent a small output of a channel with target zero
\* unfloored.
C3_Witness ==
    /\ chan_op = "update"
    /\ \E m \in Motors :
           /\ target[m] # NZero /\ regulated[m] # NZero
           /\ NLt(NAbs(regulated[m]), FromRat(MIN_OUTPUT))
           /\ NAbs(output[m]) = FromRat(MIN_OUTPUT)
    /\ \E m \in Motors :
           target[m] # NZero /\ regulated[m] = NZero /\ output[m] = NZero
    /\ \E m \in Motors :
           /\ target[m] = NZero /\ output[m] # NZero
           /\ NLt(NAbs(output[m]), FromRat(MIN_OUTPUT))

HeadingWrapped ==
    NLt(PiTimes(Q(-1, 1)), pose[3]) /\ NLe(pose[3], PiTimes(R1))

\* A pose integration moved x and y by the estimate rotated through the
\* heading held before the integration.
IncrementsUseOldHeading ==
    odom_steps' # odom_steps =>
        /\ pose'[1] = NAdd(pose[1],
               NSub(Times(robot_velocity'[1], cos(pose[3]), dt'),
                    Times(robot_velocity'[2], sin(pose[3]), dt')))
        /\ pose'[2] = NAdd(pose[2],
               NAdd(Times(robot_velocity'[1], sin(pose[3]), dt'),
                    Times(robot_velocity'[2], cos(pose[3]), dt')))

\* C6: after every control cycle the heading lies in (-pi, pi], and the x and
\* y increments of a cycle are computed with the heading as it was before that
\* cycle's theta += w*dt.
C6_HeadingWrapInvariant ==
    /\ []HeadingWrapped
    /\ [][IncrementsUseOldHeading]_vars

\* C6 witness: after at least two integrations the heading sits at pi, the
\* closed end of the interval, and the robot has moved in x and in y.
C6_Witness ==
    /\ odom_steps >= 2
    /\ pose[3] = PiTimes(R1)
    /\ pose[1] # NZero
    /\ pose[2] # NZero

\* The wheel velocities the claim states for geometry g and body velocity v.
ClaimedWheels(g, v) ==
    LET k == RMul(Q(1, 2), RAdd(g.wheel_base_, g.track_width_))
        d == RDiv(R1, g.wheel_radius_)
    IN  << NScale(d, NSub(NSub(v[1], v[2]), NScale(k, v[3]))),
           NScale(d, NAdd(NAdd(v[1], v[2]), NScale(k, v[3]))),
           NScale(d, NSub(NAdd(v[1], v[2]), NScale(k, v[3]))),
           NScale(d, NAdd(NSub(v[1], v[2]), NScale(k, v[3]))) >>

\* C8: for every geometry with r > 0 and k > 0 and every body velocity v,
\* inverse(v) is ((vx-vy-k*w)/r, (vx+vy+k*w)/r, (vx+vy-k*w)/r, (vx-vy+k*w)/r)
\* and forward(inverse(v)) = v.
C8_KinematicsRoundTrip ==
    /\ kin_pc \in {"inverse", "done"} => kin_wheels = ClaimedWheels(kin_geom, kin_v)
    /\ kin_pc = "done" => kin_back = kin_v

\* C8 witness: a body velocity with three nonzero components was mapped to
\* four different wheel velocities and back.
C8_Witness ==
    /\ kin_pc = "done"
    /\ \A i \in 1 .. 3 : kin_v[i] # NZero
    /\ Cardinality({kin_wheels[i] : i \in 1 .. 4}) = 4
    /\ kin_back = kin_v

\* The wheel targets the controller state calls for: zero while idle (no
\* set_latest_command yet), the inverse kinematics of the command last passed
\* to set_latest_command while tracking.
TrackedTargets ==
    IF delivered = <<>>
    THEN Zero4
    ELSE calculate_wheel_velocity(kinematics, SmoothedDelivered)

\* C5: before the first set_latest_command every update() drives all-zero
\* wheel targets; from the first one on, whatever was updated, read or
\* commanded since (a zero command included), the wheel targets of every
\* update() are the inverse kinematics of the command the controller
\* received last.  (Between a callback and the update that follows it the
\* targets are still those of the previous update.)
C5_TargetsFollowControllerState ==
    pc # "update" => target = TrackedTargets

\* C5 witness: in the second cycle or later, after two commands of which the
\* last was the zero command, an update has just driven nonzero targets from
\* the command the controller holds.
C5_Witness ==
    /\ pc = "read"
    /\ cycles >= 1
    /\ Len(delivered) >= 2
    /\ Last(delivered) = StopCmd
    /\ target # Zero4
    /\ target = calculate_wheel_velocity(kinematics, latest_command_)

\* C9: once a joint state was published, the published position of each wheel
\* is the sum over the cycles so far of wheel velocity * dt, starting from
\* zero, and the published velocity is the wheel velocity of that cycle, in
\* kinematics wheel order.
C9_JointStateAccumulatesFromZero ==
    /\ (pc = "wanted_joint_state" \/ cycles >= 1) =>
           joint_out.position = joint_sum
    /\ pc = "wanted_joint_state" =>
           joint_out.velocity =
               calculate_wheel_velocity(kinematics, robot_velocity)

\* The steps of a cycle in the order the claim gives them.
ClaimedNext(p) ==
    CASE p = "spin"      -> "update"
      [] p = "update"    -> "read"
      [] p = "read"      -> "integrate"
      [] p = "integrate" -> "publish_odom"
      [] OTHER           -> p

\* What the latest callback left behind: the ki of the four regulators and
\* the command stored in the controller.
LatestCallbackKi ==
    IF delivered = <<>> THEN base_ki ELSE ClaimedKi(SmoothedDelivered)

LatestCallbackCommand ==
    IF delivered = <<>> THEN Zero3 ELSE SmoothedDelivered

\* An update has just run and saw the ki and the command of the same (latest)
\* callback.
UpdateSawLatestCallback ==
    pc = "read" =>
        /\ \A m \in Motors : update_saw.ki[m] = LatestCallbackKi
        /\ update_saw.command = LatestCallbackCommand
        /\ update_saw.ki = ki
        /\ update_saw.command = latest_command_

\* The estimate integrated and published in a cycle is the one the update of
\* that cycle produced.
OdometryUsesThisCyclesEstimate ==
    pc \in {"integrate", "publish_odom"} =>
        /\ robot_velocity = robot_velocity_
        /\ robot_velocity = calculate_robot_velocity(kinematics, measured)

\* A step of the cycle is followed by the step the claim puts next.
StepsInClaimedOrder ==
    (pc \in {"spin", "update", "read", "integrate"} /\ pc' # pc)
        => (pc' = ClaimedNext(pc))

\* C10: in every cycle the steps run in the order delivery of a pending
\* command, controller update, read of the estimate, odometry integration,
\* odometry publication; the update of a cycle sees the ki and the command
\* set by the same (latest) callback, and the odometry step integrates the
\* estimate produced by the update of that cycle.
C10_CycleOrder ==
    /\ [](UpdateSawLatestCallback /\ OdometryUsesThisCyclesEstimate)
    /\ [][StepsInClaimedOrder]_vars

\* C10 witness: in the second cycle or later a callback has retuned ki, the
\* update ran under it, and the odometry of a moving robot is about to be
\* published.
C10_Witness ==
    /\ pc = "publish_odom"
    /\ cycles >= 1
    /\ delivered # <<>>
    /\ update_saw.ki[1] # base_ki
    /\ update_saw.ki = ki
    /\ robot_velocity # Zero3
    /\ pose # Zero3

\* One statement of loop().
LoopStep ==
    \/ LoopSpin
    \/ LoopUpdate
    \/ LoopRead
    \/ LoopIntegrate
    \/ LoopPublishOdom
    \/ LoopJointState
    \/ LoopWantedJointState
    \/ LoopWantedFault

\* While setup() runs no statement of loop() can run, nothing has been
\* updated or published, and loop() has started only after every INIT call
\* returned RCL_RET_OK.
LoopGatedBySetup ==
    /\ pc \in SetupPcs =>
           /\ ~ENABLED LoopStep
           /\ chan_updates = 0 /\ odom_steps = 0
           /\ odom_out = <<>> /\ joint_out = <<>> /\ wanted_out = <<>>
    /\ pc \notin SetupPcs => \A i \in InitSteps : init_attempts[i].ok

\* The INIT calls are attempted in program order: a call has been attempted
\* only if every earlier one succeeded, the call in progress has not
\* succeeded yet, and the calls before it have.
InitCallsInOrder ==
    /\ \A i \in InitSteps :
           init_attempts[i].tries > 0 =>
               \A j \in 1 .. (i - 1) : init_attempts[j].ok
    /\ \A i \in InitSteps : init_attempts[i].ok <=> i < init_index
    /\ pc \in {"led_high", "led_low"} =>
           init_index \in InitSteps /\ init_attempts[init_index].tries > 0

\* setup() moves to the next INIT call only from a call that returned
\* RCL_RET_OK, one call at a time; a failed call leaves it at the same call.
AdvanceOnlyOnSuccess ==
    /\ init_index' # init_index =>
           /\ init_index' = init_index + 1
           /\ init_attempts'[init_index].ok
    /\ (pc = "init" /\ pc' = "led_high") =>
           /\ init_index' = init_index
           /\ ~init_attempts'[init_index].ok

\* C11: setup() attempts its INIT calls in a fixed order and retries each
\* until it returns success before attempting the next one; loop() (hence any
\* controller update or publication) never starts unless every call has
\* succeeded, so a call that never succeeds keeps setup() from completing;
\* and when every call that keeps being retried eventually returns success,
\* setup() eventually completes.
C11_InitializationGating ==
    /\ [](LoopGatedBySetup /\ InitCallsInOrder)
    /\ [][AdvanceOnlyOnSuccess]_vars
    /\ <>(pc = "spin")

\* C11 witness: setup() has completed after the first call was retried at
\* least MaxAttempts times and the last call once more than needed.
C11_Witness ==
    /\ pc = "spin"
    /\ init_attempts[1].tries = MaxAttempts
    /\ init_attempts[Len(InitCalls)].tries >= 2
    /\ \A i \in InitSteps : init_attempts[i].ok
    /\ led = [mode |-> "OUTPUT", level |-> "HIGH"]

\* C12: every message array loop() writes elements 0..3 of has been allocated
\* by setup() with at least 4 elements before loop() first writes it:
\* joint_state_msg.position and joint_state_msg.velocity when loop() is at the
\* joint state update, wanted_joint_state_msg.velocity when it is at the
\* wanted joint state update; loop() never stores through an unallocated
\* buffer.
C12_LoopWritesAllocatedBuffers ==
    /\ pc = "joint_state" =>
           /\ Len(joint_state_msg.position) >= 4
           /\ Len(joint_state_msg.velocity) >= 4
    /\ pc = "wanted_joint_state" =>
           /\ wanted_joint_state_msg.allocated
           /\ wanted_joint_state_msg.size >= 4
    /\ ~null_stores

=============================================================================
